---- MODULE Spec2Model ----
(***************************************************************************)
(* A model of two dense kernels of <T>LAPACK:                              *)
(*   blas::her2k    (include/blas/her2k.hpp)   Hermitian rank-2k update    *)
(*   tlapack::gelqf (include/lapack/gelqf.hpp) blocked LQ factorization    *)
(*                                                                         *)
(* her2k is modelled with exact arithmetic over Gaussian integers          *)
(* <<re, im>> on the flat arrays the routine receives, indexed with the    *)
(* leading dimensions as the A(i,j), B(i,j), C(i,j) macros do.             *)
(* gelqf is modelled by the footprint of its steps: which reflectors have  *)
(* been applied to each element of A, and what each cell of TT holds.      *)
(***************************************************************************)
EXTENDS Integers, Sequences, FiniteSets, TLC

----------------------------------------------------------------------------
(* Bounds of the model *)

MaxN == 2

MaxK == 2

MaxLd == 3

MaxSeed == 1

MaxM == 3

MaxCols == 3

MaxNb == 3

----------------------------------------------------------------------------
(* Scalars: a Gaussian integer is <<re, im>>; a real scalar has im = 0 *)

zero == <<0, 0>>

one == <<1, 0>>

CAdd(x, y) == <<x[1] + y[1], x[2] + y[2]>>

CMul(x, y) == <<x[1] * y[1] - x[2] * y[2], x[1] * y[2] + x[2] * y[1]>>

conj(x) == <<x[1], 0 - x[2]>>

real(x) == <<x[1], 0>>

\* beta is of the real type; beta * x scales both parts
RMul(b, x) == <<b * x[1], b * x[2]>>

----------------------------------------------------------------------------
(* her2k: arguments *)

Layouts == {"ColMajor", "RowMajor", "BadLayout"}

Uplos == {"Lower", "Upper", "General", "BadUplo"}

Ops == {"NoTrans", "Trans", "ConjTrans"}

Alphas(cx) == IF cx THEN {zero, <<2, 1>>, <<0, -1>>} ELSE {zero, <<2, 0>>, <<-1, 0>>}

Betas == {0, 1, 3}

VARIABLES
    routine,    \* which routine this behaviour calls: "her2k" or "gelqf"
    \* ---- her2k ----
    layout, uplo, trans, n, k, alpha, beta,
    A, lda, B, ldb, C, ldc,
    cplx,       \* TRUE when TA, TB, TC are complex types, FALSE when they are real
    Cin,        \* the value of C at the call
    hpc,        \* "call", "returned", "error" ("idle" when gelqf runs)
    \* ---- gelqf ----
    m, gn, nb,          \* nrows(A), ncols(A), block height
    ttRows, ttCols,     \* nrows(TT), ncols(TT)
    workLen,            \* size(work)
    writable,           \* write_policy(A) grants dense write access
    GA,                 \* A: per element, the reflectors that have acted on it
    TT,                 \* TT: per cell, what was stored last
    work,               \* work: per cell, what was stored last
    j,                  \* the loop variable
    gpc,                \* position in gelqf
    ret,                \* return value
    invoked             \* gelq2 has been invoked

hvars == <<layout, uplo, trans, n, k, alpha, beta, A, lda, B, ldb, C, ldc, cplx, Cin, hpc>>

gvars == <<m, gn, nb, ttRows, ttCols, workLen, writable, GA, TT, work, j, gpc, ret, invoked>>

vars == <<routine, hvars, gvars>>

----------------------------------------------------------------------------
(* her2k: the row-major adaptation (local copies of uplo, trans, alpha) *)

EffUplo ==
    IF layout = "RowMajor"
    THEN (IF uplo = "Lower" THEN "Upper" ELSE IF uplo = "Upper" THEN "Lower" ELSE uplo)
    ELSE uplo

EffTrans ==
    IF layout = "RowMajor"
    THEN (IF trans = "NoTrans" THEN "ConjTrans" ELSE "NoTrans")
    ELSE trans

MEffAlpha == alpha

EffAlpha == IF layout = "RowMajor" THEN conj(alpha) ELSE alpha

MHer2kArgsOk ==
    /\ layout \in {"ColMajor", "RowMajor"}
    /\ trans \in {"NoTrans", "ConjTrans"}
    /\ IF layout = "RowMajor"
       THEN /\ ~(lda < (IF trans = "NoTrans" THEN k ELSE n))
            /\ ~(ldb < (IF trans = "NoTrans" THEN k ELSE n))
       ELSE /\ ~(lda < (IF trans = "NoTrans" THEN n ELSE k))
            /\ ~(ldb < (IF trans = "NoTrans" THEN n ELSE k))
    /\ ~(ldc < n)

\* every blas_error_if condition is false
Her2kArgsOk ==
    /\ layout \in {"ColMajor", "RowMajor"}
    /\ uplo \in {"Lower", "Upper", "General"}
    /\ ~(n < 0)
    /\ ~(k < 0)
    /\ trans \in {"NoTrans", "ConjTrans"}
    /\ IF layout = "RowMajor"
       THEN /\ ~(lda < (IF trans = "NoTrans" THEN k ELSE n))
            /\ ~(ldb < (IF trans = "NoTrans" THEN k ELSE n))
       ELSE /\ ~(lda < (IF trans = "NoTrans" THEN n ELSE k))
            /\ ~(ldb < (IF trans = "NoTrans" THEN n ELSE k))
    /\ ~(ldc < n)

----------------------------------------------------------------------------
(* her2k: the column-major kernel, element by element.                     *)
(* p is a position of the array C; with ldc >= n it is C(i,j) for          *)
(* i = p % ldc, j = p \div ldc when i < n (else it is padding).            *)

RowOf(p) == p % ldc

ColOf(p) == p \div ldc

IsElem(p) == RowOf(p) < n /\ ColOf(p) < n

Aat(i, l) == A[i + l * lda]

Bat(i, l) == B[i + l * ldb]

Cat(X, i, jj) == X[i + jj * ldc]

\* alpha == zero, beta == zero: which C(i,j) the loops assign
ZeroFillWrites(u, i, jj) ==
    IF u # "Upper" THEN i <= jj
    ELSE IF u # "Lower" THEN i >= jj
    ELSE TRUE

\* alpha == zero, beta != one: which C(i,j) the loops assign
ScaleWrites(u, i, jj) ==
    IF u # "Upper" THEN i <= jj
    ELSE IF u # "Lower" THEN i >= jj
    ELSE TRUE

MAlphaZeroC(u, X) ==
    [p \in DOMAIN X |->
        IF ~IsElem(p) THEN X[p]
        ELSE IF beta = 0
             THEN (IF ZeroFillWrites(u, RowOf(p), ColOf(p)) THEN zero ELSE X[p])
        ELSE IF ScaleWrites(u, RowOf(p), ColOf(p))
             THEN (IF RowOf(p) = ColOf(p) THEN RMul(beta, real(X[p])) ELSE RMul(beta, X[p]))
             ELSE X[p]]

\* the alpha == zero branch
AlphaZeroC(u, X) ==
    [p \in DOMAIN X |->
        IF ~IsElem(p) THEN X[p]
        ELSE IF beta = 0
             THEN (IF ZeroFillWrites(u, RowOf(p), ColOf(p)) THEN zero ELSE X[p])
        ELSE IF beta # 1
             THEN (IF ScaleWrites(u, RowOf(p), ColOf(p))
                   THEN (IF RowOf(p) = ColOf(p) THEN RMul(beta, real(X[p]))
                                                ELSE RMul(beta, X[p]))
                   ELSE X[p])
        ELSE X[p]]

RECURSIVE SumTo(_, _)
\* sum over l = 0 .. kk-1 of F[l]
SumTo(F, kk) == IF kk = 0 THEN zero ELSE CAdd(SumTo(F, kk - 1), F[kk - 1])

\* trans == NoTrans: the final value of a referenced C(i,j)
NoTransElem(al, X, i, jj) ==
    IF i = jj
    THEN CAdd(RMul(beta, real(Cat(X, jj, jj))),
              SumTo([l \in 0..(k - 1) |->
                        RMul(2, real(CMul(Aat(jj, l), CMul(al, conj(Bat(jj, l))))))], k))
    ELSE CAdd(RMul(beta, Cat(X, i, jj)),
              SumTo([l \in 0..(k - 1) |->
                        CAdd(CMul(Aat(i, l), CMul(al, conj(Bat(jj, l)))),
                             CMul(Bat(i, l), conj(CMul(al, Aat(jj, l)))))], k))

\* trans == ConjTrans: the final value of a referenced C(i,j)
ConjTransElem(al, X, i, jj) ==
    LET sum1 == SumTo([l \in 0..(k - 1) |-> CMul(conj(Aat(l, i)), Bat(l, jj))], k)
        sum2 == SumTo([l \in 0..(k - 1) |-> CMul(conj(Bat(l, i)), Aat(l, jj))], k)
        comb == CAdd(CMul(al, sum1), CMul(conj(al), sum2))
    IN  IF i = jj
        THEN CAdd(real(comb), RMul(beta, real(Cat(X, i, jj))))
        ELSE CAdd(comb, RMul(beta, Cat(X, i, jj)))

\* alpha != zero: which C(i,j) the loops compute
MainWrites(u, i, jj) == IF u # "Lower" THEN i <= jj ELSE i >= jj

\* the alpha != zero branch, before the General mirror
MainC(u, t, al, X) ==
    [p \in DOMAIN X |->
        IF IsElem(p) /\ MainWrites(u, RowOf(p), ColOf(p))
        THEN (IF t = "NoTrans" THEN NoTransElem(al, X, RowOf(p), ColOf(p))
                               ELSE ConjTransElem(al, X, RowOf(p), ColOf(p)))
        ELSE X[p]]

\* if (uplo == Uplo::General): C(i,j) = conj( C(j,i) ) for i > j
MirrorC(u, X) ==
    IF u = "General"
    THEN [p \in DOMAIN X |->
            IF IsElem(p) /\ RowOf(p) > ColOf(p)
            THEN conj(Cat(X, ColOf(p), RowOf(p)))
            ELSE X[p]]
    ELSE X

\* the array on return from a call on the array X that passed the checks, n > 0
Her2kResult(u, t, al, X) ==
    IF al = zero THEN AlphaZeroC(u, X) ELSE MirrorC(u, MainC(u, t, al, X))

----------------------------------------------------------------------------
(* her2k: the input arrays of a call *)

\* number of columns of the column-major array A (and B) the kernel reads
ABCols(lay, t) ==
    IF (IF lay = "RowMajor" THEN (IF t = "NoTrans" THEN "ConjTrans" ELSE "NoTrans") ELSE t)
        = "NoTrans"
    THEN k ELSE n

\* the arrays of a call: entries that differ from place to place, shifted by sd
AInput(len, cx, sd) ==
    [p \in 0..(len - 1) |-> <<1 + p - 2 * sd, IF cx THEN p - 1 + sd ELSE 0>>]

BInput(len, cx, sd) ==
    [p \in 0..(len - 1) |-> <<2 - p + sd, IF cx THEN 1 + 2 * p - 3 * sd ELSE 0>>]

CInput(len, ld, nn, cx, realDiag) ==
    [p \in 0..(len - 1) |->
        <<3 + 2 * p,
          IF cx /\ ~(realDiag /\ p % ld = p \div ld /\ p \div ld < nn) THEN 1 + p ELSE 0>>]

GelqfIdle ==
    /\ m = 0 /\ gn = 0 /\ nb = 0 /\ ttRows = 0 /\ ttCols = 0 /\ workLen = 0
    /\ writable = TRUE
    /\ GA = <<>> /\ TT = <<>> /\ work = <<>>
    /\ j = 0 /\ gpc = "idle" /\ ret = 0 /\ invoked = FALSE

InitHer2k ==
    /\ routine = "her2k"
    /\ layout \in Layouts
    /\ uplo \in Uplos
    /\ trans \in Ops
    /\ n \in 0..MaxN
    /\ k \in 0..MaxK
    /\ cplx \in BOOLEAN
    /\ alpha \in Alphas(cplx)
    /\ beta \in Betas
    /\ lda \in 1..MaxLd
    /\ ldb \in 1..MaxLd
    /\ ldc \in 1..MaxLd
    /\ \E sd \in 0..MaxSeed :
           /\ A = AInput(lda * ABCols(layout, trans), cplx, sd)
           /\ B = BInput(ldb * ABCols(layout, trans), cplx, sd)
    /\ \E realDiag \in (IF cplx THEN BOOLEAN ELSE {TRUE}) :
           C = CInput(ldc * n, ldc, n, cplx, realDiag)
    /\ Cin = C
    /\ hpc = "call"
    /\ GelqfIdle

----------------------------------------------------------------------------
(* her2k: the call *)

\* a blas_error_if fires: the call throws before C is touched
Her2kError ==
    /\ routine = "her2k" /\ hpc = "call"
    /\ ~Her2kArgsOk
    /\ hpc' = "error"
    /\ UNCHANGED <<routine, layout, uplo, trans, n, k, alpha, beta, A, lda, B, ldb, C, ldc,
                   cplx, Cin, gvars>>

\* quick return: n == 0
Her2kQuick ==
    /\ routine = "her2k" /\ hpc = "call"
    /\ Her2kArgsOk
    /\ n = 0
    /\ hpc' = "returned"
    /\ UNCHANGED <<routine, layout, uplo, trans, n, k, alpha, beta, A, lda, B, ldb, C, ldc,
                   cplx, Cin, gvars>>

\* alpha == zero: scale or zero-fill, then return
Her2kAlphaZero ==
    /\ routine = "her2k" /\ hpc = "call"
    /\ Her2kArgsOk
    /\ n # 0
    /\ EffAlpha = zero
    /\ C' = Her2kResult(EffUplo, EffTrans, EffAlpha, C)
    /\ hpc' = "returned"
    /\ UNCHANGED <<routine, layout, uplo, trans, n, k, alpha, beta, A, lda, B, ldb, ldc,
                   cplx, Cin, gvars>>

\* alpha != zero: the rank-2k update, then the General mirror
Her2kMain ==
    /\ routine = "her2k" /\ hpc = "call"
    /\ Her2kArgsOk
    /\ n # 0
    /\ EffAlpha # zero
    /\ C' = Her2kResult(EffUplo, EffTrans, EffAlpha, C)
    /\ hpc' = "returned"
    /\ UNCHANGED <<routine, layout, uplo, trans, n, k, alpha, beta, A, lda, B, ldb, ldc,
                   cplx, Cin, gvars>>

NextHer2k == Her2kError \/ Her2kQuick \/ Her2kAlphaZero \/ Her2kMain

SpecHer2k == InitHer2k /\ [][NextHer2k]_vars

----------------------------------------------------------------------------
(* gelqf: constants, the blocks it slices, and its argument checks *)

Min(a, b) == IF a < b THEN a ELSE b

\* k = min(m, n)
gk == Min(m, gn)

\* ib = min(nb, k - j), evaluated inside the loop (j < k)
ib == Min(nb, gk - j)

\* a slice is a pair of half-open ranges: rows [rows[1], rows[2]), cols likewise
TT1 == [rows |-> <<j, j + ib>>, cols |-> <<0, ib>>]

A11 == [rows |-> <<j, j + ib>>, cols |-> <<j, gn>>]

A12 == [rows |-> <<j + ib, m>>, cols |-> <<j, gn>>]

Mwork1 == [rows |-> <<j, m>>, cols |-> <<0, ib>>]

work1 == [rows |-> <<j + ib, m>>, cols |-> <<0, ib>>]

InSlice(s, rc) ==
    /\ s.rows[1] <= rc[1] /\ rc[1] < s.rows[2]
    /\ s.cols[1] <= rc[2] /\ rc[2] < s.cols[2]

\* the value of the first tlapack_check_false that fires, 0 when none does
GelqfCheck ==
    IF ~writable THEN -1
    ELSE IF ttRows < m \/ ttCols < nb THEN -2
    ELSE IF workLen < m THEN -3
    ELSE 0

----------------------------------------------------------------------------
(* gelqf: the footprint of the primitives it calls.                        *)
(* An element of A carries the set of reflectors H(i) that have acted on   *)
(* it (H(i) acts on columns i and beyond; generating H(r) from row r       *)
(* counts as H(r) acting on row r).  A cell of TT carries what was stored  *)
(* in it last: <<"in">> the caller's value, <<"tau", r>> the scalar of     *)
(* H(r), <<"T", p>> an off-diagonal entry of the triangular factor of the  *)
(* panel at offset p, <<"work", p>> scratch of that panel's block-apply.   *)

\* gelq2(A11, tauw1, work) on A: row r of the panel is hit by H(p) .. H(r)
gelq2A(X, s) ==
    [rc \in DOMAIN X |->
        IF InSlice(s, rc)
        THEN X[rc] \cup {i \in s.rows[1]..rc[1] : i <= rc[2]}
        ELSE X[rc]]

\* gelq2(A11, tauw1, work) on tauw1 = diag(TT1)
gelq2Tau(T, s) ==
    [rc \in DOMAIN T |->
        IF InSlice(s, rc) /\ rc[1] - s.rows[1] = rc[2] - s.cols[1]
        THEN <<"tau", rc[1]>>
        ELSE T[rc]]

\* gelq2(A11, tauw1, work) on work: scratch of the reflector applications
gelq2Work(W, s) ==
    [i \in DOMAIN W |-> IF i < s.rows[2] - s.rows[1] - 1 THEN <<"work", s.rows[1]>> ELSE W[i]]

\* larft(Forward, Rowwise, A11, tauw1, TT1): the upper triangle of TT1
larft(T, s) ==
    [rc \in DOMAIN T |->
        IF InSlice(s, rc) /\ rc[1] - s.rows[1] <= rc[2] - s.cols[1]
        THEN (IF rc[1] - s.rows[1] = rc[2] - s.cols[1]
              THEN <<"tau", rc[1]>>
              ELSE <<"T", s.rows[1]>>)
        ELSE T[rc]]

\* larfb(Right, NoTrans, Forward, Rowwise, A11, TT1, A12, work1) on A12
larfbA(X, v, s) ==
    [rc \in DOMAIN X |->
        IF InSlice(s, rc)
        THEN X[rc] \cup {i \in v.rows[1]..(v.rows[2] - 1) : i <= rc[2]}
        ELSE X[rc]]

\* larfb(Right, NoTrans, Forward, Rowwise, A11, TT1, A12, work1) on work1
larfbWork(T, v, s) ==
    [rc \in DOMAIN T |-> IF InSlice(s, rc) THEN <<"work", v.rows[1]>> ELSE T[rc]]

----------------------------------------------------------------------------
(* gelqf: the call *)

AInit(mm, nn) == [rc \in (0..(mm - 1)) \X (0..(nn - 1)) |-> {}]

TTInit(rr, cc) == [rc \in (0..(rr - 1)) \X (0..(cc - 1)) |-> <<"in">>]

workInit(len) == [i \in 0..(len - 1) |-> <<"in">>]

Her2kIdle ==
    /\ layout = "ColMajor" /\ uplo = "Lower" /\ trans = "NoTrans"
    /\ n = 0 /\ k = 0 /\ alpha = zero /\ beta = 0
    /\ A = <<>> /\ lda = 1 /\ B = <<>> /\ ldb = 1 /\ C = <<>> /\ ldc = 1
    /\ cplx = FALSE /\ Cin = <<>> /\ hpc = "idle"

InitGelqf ==
    /\ routine = "gelqf"
    /\ m \in 0..MaxM
    /\ gn \in 0..MaxCols
    /\ nb \in 0..MaxNb
    /\ ttRows \in 0..MaxM
    /\ ttCols \in 0..MaxNb
    /\ workLen \in 0..MaxM
    /\ writable \in BOOLEAN
    /\ GA = AInit(m, gn)
    /\ TT = TTInit(ttRows, ttCols)
    /\ work = workInit(workLen)
    /\ j = 0 /\ gpc = "call" /\ ret = 0 /\ invoked = FALSE
    /\ Her2kIdle

\* a tlapack_check_false fires
GelqfReject ==
    /\ routine = "gelqf" /\ gpc = "call"
    /\ GelqfCheck # 0
    /\ ret' = GelqfCheck
    /\ gpc' = "error"
    /\ UNCHANGED <<routine, hvars, m, gn, nb, ttRows, ttCols, workLen, writable, GA, TT,
                   work, j, invoked>>

\* the checks pass: for (idx_t j = 0; ...
GelqfEnter ==
    /\ routine = "gelqf" /\ gpc = "call"
    /\ GelqfCheck = 0
    /\ j' = 0
    /\ gpc' = "loop"
    /\ UNCHANGED <<routine, hvars, m, gn, nb, ttRows, ttCols, workLen, writable, GA, TT,
                   work, ret, invoked>>

\* j < k: gelq2(A11, tauw1, work)
GelqfGelq2 ==
    /\ routine = "gelqf" /\ gpc = "loop"
    /\ j < gk
    /\ GA' = gelq2A(GA, A11)
    /\ TT' = gelq2Tau(TT, TT1)
    /\ work' = gelq2Work(work, A11)
    /\ invoked' = TRUE
    /\ gpc' = "panel"
    /\ UNCHANGED <<routine, hvars, m, gn, nb, ttRows, ttCols, workLen, writable, j, ret>>

\* j + ib < k: larft(Forward, Rowwise, A11, tauw1, TT1)
GelqfLarft ==
    /\ routine = "gelqf" /\ gpc = "panel"
    /\ j + ib < gk
    /\ TT' = larft(TT, TT1)
    /\ gpc' = "apply"
    /\ UNCHANGED <<routine, hvars, m, gn, nb, ttRows, ttCols, workLen, writable, GA, work,
                   j, ret, invoked>>

\* larfb(..., A11, TT1, A12, work1); j += nb
GelqfLarfb ==
    /\ routine = "gelqf" /\ gpc = "apply"
    /\ GA' = larfbA(GA, A11, A12)
    /\ TT' = larfbWork(TT, A11, work1)
    /\ j' = j + nb
    /\ gpc' = "loop"
    /\ UNCHANGED <<routine, hvars, m, gn, nb, ttRows, ttCols, workLen, writable, work, ret,
                   invoked>>

\* not (j + ib < k): no larft, no larfb; j += nb
GelqfSkip ==
    /\ routine = "gelqf" /\ gpc = "panel"
    /\ ~(j + ib < gk)
    /\ j' = j + nb
    /\ gpc' = "loop"
    /\ UNCHANGED <<routine, hvars, m, gn, nb, ttRows, ttCols, workLen, writable, GA, TT,
                   work, ret, invoked>>

\* not (j < k): return 0
GelqfReturn ==
    /\ routine = "gelqf" /\ gpc = "loop"
    /\ ~(j < gk)
    /\ ret' = 0
    /\ gpc' = "done"
    /\ UNCHANGED <<routine, hvars, m, gn, nb, ttRows, ttCols, workLen, writable, GA, TT,
                   work, j, invoked>>

NextGelqf ==
    \/ GelqfReject
    \/ GelqfEnter
    \/ GelqfGelq2
    \/ GelqfLarft
    \/ GelqfLarfb
    \/ GelqfSkip
    \/ GelqfReturn

SpecGelqf == InitGelqf /\ [][NextGelqf]_vars

\* gelqf is one sequential call: a step that can be taken is taken
FairSpecGelqf == SpecGelqf /\ WF_vars(NextGelqf)

----------------------------------------------------------------------------
(* Both routines *)

Init == InitHer2k \/ InitGelqf

Next == NextHer2k \/ NextGelqf

Spec == Init /\ [][Next]_vars

----------------------------------------------------------------------------
(* her2k: the caller's view, used to state the properties *)

\* element (r, c) of a matrix stored in the array X with leading dimension ld,
\* in the caller's layout
Elem(X, ld, r, c) == IF layout = "ColMajor" THEN X[r + c * ld] ELSE X[c + r * ld]

\* (r, c) belongs to the triangle the caller names
Referenced(u, r, c) ==
    IF u = "Lower" THEN r >= c ELSE IF u = "Upper" THEN r <= c ELSE TRUE

\* entry (r, c) of alpha*op(A)*op(B)^H + conj(alpha)*op(B)*op(A)^H + beta*C_in,
\* summed directly over the contraction index
Reference(r, c) ==
    LET AB == SumTo([l \in 0..(k - 1) |->
                       IF trans = "NoTrans"
                       THEN CMul(Elem(A, lda, r, l), conj(Elem(B, ldb, c, l)))
                       ELSE CMul(conj(Elem(A, lda, l, r)), Elem(B, ldb, l, c))], k)
        BA == SumTo([l \in 0..(k - 1) |->
                       IF trans = "NoTrans"
                       THEN CMul(Elem(B, ldb, r, l), conj(Elem(A, lda, c, l)))
                       ELSE CMul(conj(Elem(B, ldb, l, r)), Elem(A, lda, l, c))], k)
    IN  CAdd(CAdd(CMul(alpha, AB), CMul(conj(alpha), BA)), RMul(beta, Elem(Cin, ldc, r, c)))

RealDiagIn == \A d \in 0..(n - 1) : Elem(Cin, ldc, d, d)[2] = 0

\* C1: after a valid call with alpha != 0 and n > 0 on a C with a real
\* diagonal, every element of the triangle named by uplo (Lower or Upper, in
\* the caller's layout) equals the entry of the reference formula
\* alpha*A*B^H + conj(alpha)*B*A^H + beta*C_in (NoTrans) or
\* alpha*A^H*B + conj(alpha)*B^H*A + beta*C_in (ConjTrans).
C1_UpdateFormula ==
    (hpc = "returned" /\ n > 0 /\ alpha # zero /\ uplo \in {"Lower", "Upper"} /\ RealDiagIn)
        => \A r \in 0..(n - 1), c \in 0..(n - 1) :
               Referenced(uplo, r, c) => Elem(C, ldc, r, c) = Reference(r, c)

C1_Witness ==
    /\ hpc = "returned" /\ layout = "RowMajor" /\ trans = "ConjTrans" /\ uplo = "Lower"
    /\ n = 2 /\ k = 2 /\ alpha = <<2, 1>> /\ beta = 3 /\ RealDiagIn
    /\ Elem(C, ldc, 1, 0) # Elem(Cin, ldc, 1, 0)
    /\ Elem(C, ldc, 1, 0) = Reference(1, 0)
    /\ Elem(C, ldc, 0, 1) = Elem(Cin, ldc, 0, 1)

\* the value the alpha = 0 case owes a referenced element
ScaledIn(r, c) ==
    IF beta = 0 THEN zero
    ELSE IF r = c THEN RMul(beta, real(Elem(Cin, ldc, r, c)))
    ELSE RMul(beta, Elem(Cin, ldc, r, c))

\* C2: after a valid call with alpha = 0 and n > 0, exactly the elements of
\* the triangle named by uplo are written (all of C for General): each holds 0
\* when beta = 0 and its beta-scaled input otherwise, and every element outside
\* that triangle holds its input value.  (Stated for beta # 1; with beta = 1
\* scaling changes no off-diagonal value, and the diagonal is C3's subject.)
C2_WritesReferencedTriangle ==
    (hpc = "returned" /\ n > 0 /\ alpha = zero /\ beta # 1)
        => \A r \in 0..(n - 1), c \in 0..(n - 1) :
               Elem(C, ldc, r, c) =
                   (IF Referenced(uplo, r, c) THEN ScaledIn(r, c) ELSE Elem(Cin, ldc, r, c))

\* C3, as stated: after a valid call with alpha = 0 and beta = 1, every
\* off-diagonal element of the referenced triangle equals its input and every
\* diagonal element equals the real part of its input.
C3_DiagonalForcedReal ==
    (hpc = "returned" /\ alpha = zero /\ beta = 1)
        => \A r \in 0..(n - 1), c \in 0..(n - 1) :
               Referenced(uplo, r, c) =>
                   Elem(C, ldc, r, c) =
                       (IF r = c THEN real(Elem(Cin, ldc, r, c)) ELSE Elem(Cin, ldc, r, c))

\* C3, amended: after a valid call with alpha = 0 and beta = 1, every element
\* of C equals its input value, a diagonal element with a non-zero imaginary
\* part included.
C3_BetaOneLeavesC ==
    (hpc = "returned" /\ alpha = zero /\ beta = 1) => C = Cin

C3_Witness ==
    /\ hpc = "returned" /\ alpha = zero /\ beta = 1 /\ n = 2 /\ uplo = "Upper"
    /\ Elem(Cin, ldc, 1, 1)[2] # 0
    /\ Elem(C, ldc, 1, 1)[2] # 0

\* C4: after a valid call with uplo = General and n > 0, C(i,j) = conj(C(j,i))
\* for all i # j and every diagonal entry has a zero imaginary part.  (Stated
\* for the calls that write C: alpha # 0 or beta # 1.)
C4_GeneralIsHermitian ==
    (hpc = "returned" /\ uplo = "General" /\ n > 0 /\ (alpha # zero \/ beta # 1))
        => \A r \in 0..(n - 1), c \in 0..(n - 1) :
               IF r = c THEN Elem(C, ldc, r, r)[2] = 0
               ELSE Elem(C, ldc, r, c) = conj(Elem(C, ldc, c, r))

\* the checks of the call, with Op::Trans read as Op::ConjTrans
ArgsOkAsConjTrans ==
    /\ layout \in {"ColMajor", "RowMajor"}
    /\ uplo \in {"Lower", "Upper", "General"}
    /\ IF layout = "RowMajor" THEN lda >= n /\ ldb >= n ELSE lda >= k /\ ldb >= k
    /\ ldc >= n

\* C5: with real element types a call with trans = Op::Trans is accepted and
\* leaves in C what the same call with Op::ConjTrans leaves; Op::Trans is an
\* invalid argument only with complex A or B.
C5_TransIsConjTransWhenReal ==
    (hpc # "call" /\ trans = "Trans")
        => IF cplx THEN hpc = "error"
           ELSE (ArgsOkAsConjTrans
                    => /\ hpc = "returned"
                       /\ C = (IF n = 0 THEN Cin
                               ELSE Her2kResult(EffUplo,
                                                IF layout = "RowMajor" THEN "NoTrans"
                                                                       ELSE "ConjTrans",
                                                EffAlpha, Cin)))

\* a precondition of her2k is violated
Her2kBadArgs ==
    \/ layout \notin {"ColMajor", "RowMajor"}
    \/ uplo \notin {"Lower", "Upper", "General"}
    \/ (trans = "Trans" /\ cplx)
    \/ /\ trans \in {"NoTrans", "ConjTrans"}
       /\ layout \in {"ColMajor", "RowMajor"}
       /\ \/ lda < (IF (layout = "ColMajor") = (trans = "NoTrans") THEN n ELSE k)
          \/ ldb < (IF (layout = "ColMajor") = (trans = "NoTrans") THEN n ELSE k)
    \/ ldc < n

\* the code gelqf owes a call: -1 A not writable, -2 TT too small, -3 work too short
GelqfBadArgs ==
    IF ~writable THEN -1
    ELSE IF ttRows < m \/ ttCols < nb THEN -2
    ELSE IF workLen < m THEN -3
    ELSE 0

\* C6: a call that violates a precondition fails, and it fails before the
\* first write: her2k leaves every element of C at its input value; gelqf
\* reports -1, -2 or -3, leaves A, TT and work at their input values and has
\* invoked no panel step.
C6_FailsBeforeFirstWrite ==
    /\ (routine = "her2k" /\ hpc # "call" /\ Her2kBadArgs) => hpc = "error"
    /\ hpc = "error" => C = Cin
    /\ (routine = "gelqf" /\ gpc # "call" /\ ~writable) => (gpc = "error" /\ ret = -1)
    /\ (routine = "gelqf" /\ gpc # "call" /\ writable /\ (ttRows < m \/ ttCols < nb))
           => (gpc = "error" /\ ret = -2)
    /\ (routine = "gelqf" /\ gpc # "call" /\ writable /\ ttRows >= m /\ ttCols >= nb
            /\ workLen < m)
           => (gpc = "error" /\ ret = -3)
    /\ gpc = "error"
           => /\ GA = AInit(m, gn)
              /\ TT = TTInit(ttRows, ttCols)
              /\ work = workInit(workLen)
              /\ invoked = FALSE

C6_Witness ==
    /\ hpc = "error" /\ layout = "RowMajor" /\ uplo = "General" /\ trans = "NoTrans"
    /\ n = 2 /\ k = 1 /\ lda >= k /\ ldb >= k /\ ldc = 1
    /\ alpha # zero /\ C = Cin

----------------------------------------------------------------------------
(* gelqf: properties *)

\* the offsets of the panels of a returned call
PanelOffsets == {p \in 0..(gk - 1) : p % nb = 0}

\* C7: a call that passes the three checks reaches return 0.
C7_LoopTerminates == (gpc = "loop") ~> (gpc = "done" /\ ret = 0)

\* C8: when gelqf has returned 0, for every panel at offset p (height
\* min(nb, k - p)) the upper triangle of the block TT[p : p+ib, 0 : ib] holds
\* that panel's triangular factor as larft writes it: tau on the diagonal,
\* the factor's entries above it.
C8_TTHoldsTriangularFactors ==
    (gpc = "done" /\ ret = 0)
        => \A p \in PanelOffsets :
               \A a \in 0..(Min(nb, gk - p) - 1), b \in 0..(Min(nb, gk - p) - 1) :
                   a <= b =>
                       TT[<<p + a, b>>] = (IF a = b THEN <<"tau", p + a>> ELSE <<"T", p>>)

\* C9: when gelqf has returned 0, every row r of A has been transformed by
\* every reflector H(i) with i < min(r, k), on the columns i and beyond.
C9_AllRowsTransformed ==
    (gpc = "done" /\ ret = 0)
        => \A r \in 0..(m - 1), c \in 0..(gn - 1), i \in 0..(gk - 1) :
               (i < r /\ i <= c) => i \in GA[<<r, c>>]

\* rows of TT whose panels are finished: no later step may write them
FinishedRows ==
    IF gpc = "loop" THEN Min(j, gk)
    ELSE IF gpc = "panel" THEN j
    ELSE IF gpc = "apply" THEN j + ib
    ELSE IF gpc = "done" THEN gk
    ELSE 0

Within(s, nr, nc) ==
    /\ 0 <= s.rows[1] /\ s.rows[1] <= s.rows[2] /\ s.rows[2] <= nr
    /\ 0 <= s.cols[1] /\ s.cols[1] <= s.cols[2] /\ s.cols[2] <= nc

\* every view the current iteration takes lies within its parent
SlicesInBounds ==
    /\ ((gpc = "loop" /\ j < gk) \/ gpc \in {"panel", "apply"})
           => (Within(TT1, ttRows, ttCols) /\ Within(A11, m, gn))
    /\ ((gpc = "panel" /\ j + ib < gk) \/ gpc = "apply")
           => (Within(A12, m, gn) /\ Within(work1, ttRows, ttCols))

TauStored == \A r \in 0..(gk - 1) : TT[<<r, r % nb>>] = <<"tau", r>>

\* C10: no step of gelqf writes a cell of TT in the rows of a finished panel;
\* on return the tau of reflector r is at TT(r, r mod nb) for every r < k; and
\* every view taken of A and TT lies within its parent.
C10_FinishedRowsKept ==
    [][/\ \A rc \in DOMAIN TT : rc[1] < FinishedRows => TT'[rc] = TT[rc]
       /\ (gpc' = "done" => TauStored')
       /\ SlicesInBounds']_vars

C10_Witness ==
    /\ gpc = "done" /\ ret = 0 /\ m = 3 /\ gn = 3 /\ nb = 2 /\ invoked
    /\ TauStored
    /\ TT[<<0, 1>>] = <<"T", 0>>
    /\ TT[<<2, 1>>] = <<"work", 0>>

====
